---------------------------- MODULE Spec2Model ----------------------------
(***************************************************************************)
(* Model of src/components/upProvider.tsx: the UpProvider React component, *)
(* the injected UP provider it listens to, and the useUpProvider hook.     *)
(*                                                                         *)
(* React is modelled by what the component relies on: a state setter       *)
(* updates the hook state at once and marks the component dirty; a later   *)
(* Render takes the closure snapshot (account, contextAccount, client) and *)
(* the exposed context value; an effect whose dependencies changed is run  *)
(* in a later step (cleanup of the previous run first).  Provider events   *)
(* and request responses are separate steps and interleave with these.     *)
(***************************************************************************)
EXTENDS Naturals, Sequences, FiniteSets

VARIABLES
  hasProvider,      \* line 49-50: module-level provider is non-null
  pAccounts,        \* provider side: the accounts eth_accounts answers
  pChainId,         \* provider side: the chain eth_chainId answers
  pContextAccounts, \* provider side: provider.contextAccounts
  listeners,        \* provider side: handlers registered with provider.on
  phase,            \* "new" | "mounted" | "unmounted"
  chainId,          \* useState, line 65
  accounts,         \* useState, line 66
  contextAccounts,  \* useState, line 67
  walletConnected,  \* useState, line 70
  selectedAddress,  \* useState, line 71
  isSearching,      \* useState, line 74
  view,             \* what the last render computed (closure and context value)
  dirty,            \* a setter changed state since the last render
  effectPending,    \* the last render changed the effect's dependencies
  cleanup,          \* the last effect run returned a cleanup not yet called
  inits,            \* init() coroutines that are suspended or have ended
  events,           \* number of events the provider has emitted
  hookResult,       \* outcome of the last useUpProvider call
  failedNoEvent     \* history: an init run failed and no event came since

vars == <<hasProvider, pAccounts, pChainId, pContextAccounts, listeners, phase,
          chainId, accounts, contextAccounts, walletConnected, selectedAddress,
          isSearching, view, dirty, effectPending, cleanup, inits, events,
          hookResult, failedNoEvent>>

state == <<chainId, accounts, contextAccounts, walletConnected>>

-----------------------------------------------------------------------------
(* Bounds and value domains *)

MaxEvents == 2

Undefined == "undefined"
Null == "null"

AccountLists == {<<>>, <<"0xA">>, <<"0xA", "0xB">>, <<"0xB">>}
ContextLists == {<<>>, <<"0xC">>, <<"0xD">>}
LuksoMainnetId == 42
ChainIds == {LuksoMainnetId, 4201}
SelectableAddresses == {Null, "0xA"}
EventNames == {"accountsChanged", "chainChanged", "contextAccountsChanged"}

\* eth_chainId answers a hex string (line 113)
HexChainId(n) == IF n = LuksoMainnetId THEN "0x2a" ELSE "0x1069"

\* Number(hexString), line 112
Number(s) == IF s = "0x2a" THEN LuksoMainnetId ELSE IF s = "0x1069" THEN 4201 ELSE 0

\* const [x] = list ?? [], lines 75-76; list[0], lines 121, 132, 137
First(list) == IF Len(list) = 0 THEN Undefined ELSE list[1]

-----------------------------------------------------------------------------
(* Render: lines 64-97 and 164-196 *)

NoClient == [chain |-> Null, memo |-> 0]

\* Mutant: the two chains of the wallet client are swapped
clientChainsSwapped(cid) ==
  IF hasProvider /\ cid # 0
    THEN [chain |-> IF cid = LuksoMainnetId THEN "luksoTestnet" ELSE "lukso", memo |-> cid]
    ELSE NoClient

\* useMemo(() => createWalletClient(...), [chainId]), lines 78-86: a new
\* client object for every chainId the memo sees, null without provider
\* or with chainId 0.
client(cid) ==
  IF hasProvider /\ cid # 0
    THEN [chain |-> IF cid = LuksoMainnetId THEN "lukso" ELSE "luksoTestnet", memo |-> cid]
    ELSE NoClient

\* useMemo(() => createPublicClient(...), [chainId]), lines 88-96
readClient(cid) ==
  IF hasProvider /\ cid # 0
    THEN [chain |-> IF cid = LuksoMainnetId THEN "lukso" ELSE "luksoTestnet", memo |-> cid]
    ELSE NoClient

\* One execution of the function body of UpProvider on the current state.
RenderView ==
  [chainId |-> chainId, accounts |-> accounts, contextAccounts |-> contextAccounts,
   walletConnected |-> walletConnected, selectedAddress |-> selectedAddress,
   isSearching |-> isSearching,
   account |-> First(accounts), contextAccount |-> First(contextAccounts),
   client |-> client(chainId), readClient |-> readClient(chainId)]

\* The effect's dependency array, line 162
Deps(v) == <<v.client, v.account, v.contextAccount>>

\* Mutant: a dependency is a new object on every render
DepsChangedEveryRender(old, new) == TRUE

\* React's comparison of the dependency array of two consecutive renders
DepsChanged(old, new) == Deps(new) # Deps(old)

\* The value of the context before any render of the provider
InitialView ==
  [chainId |-> 0, accounts |-> <<>>, contextAccounts |-> <<>>,
   walletConnected |-> FALSE, selectedAddress |-> Null, isSearching |-> FALSE,
   account |-> Undefined, contextAccount |-> Undefined, client |-> NoClient,
   readClient |-> NoClient]

NoResult == [outcome |-> "none", under |-> FALSE, value |-> InitialView]

-----------------------------------------------------------------------------
(* The effect: lines 98-162 *)

\* The three handlers one effect run registers, lines 130-146.  Each run
\* creates new function objects; cur marks those of the run whose cleanup
\* is still to be called.  A handler carries the account and
\* contextAccount its closure captured (lines 132, 137).
Handlers(v) ==
  {[event |-> e, cur |-> TRUE, account |-> v.account,
    contextAccount |-> v.contextAccount] : e \in EventNames}

\* provider.on, lines 144-146
Register(ls, v) == ls \cup Handlers(v)

\* Mutant: the cleanup forgets removeListener("chainChanged", ...)
RemoveListenersButChain(ls) ==
  {[l EXCEPT !.cur = FALSE] :
     l \in {m \in ls : ~(m.cur /\ m.event \in
              {"accountsChanged", "contextAccountsChanged"})}}

\* The cleanup's removeListener calls, lines 150-155: they name the
\* handlers of the cleanup's own run.  What is left belongs to no run
\* that can still remove it.
RemoveListeners(ls) ==
  {[l EXCEPT !.cur = FALSE] :
     l \in {m \in ls : ~(m.cur /\ m.event \in
              {"accountsChanged", "contextAccountsChanged", "chainChanged"})}}

Awaiting(c) == c.pc \in {"eth_accounts", "eth_chainId"}
Failed(c) == c.pc \in {"failed_eth_accounts", "failed_eth_chainId"}

\* mounted = false, line 149: seen by the init of that run.  A coroutine
\* that has ended is dropped with its run.
Unmounted(cs) == {[c EXCEPT !.mounted = FALSE] : c \in {d \in cs : Awaiting(d)}}

\* React calls the cleanup of the previous effect run, lines 148-156, if
\* that run returned one (line 129: only with a provider).
CleanedListeners == IF cleanup THEN RemoveListeners(listeners) ELSE listeners
CleanedInits == IF cleanup THEN Unmounted(inits) ELSE {c \in inits : Awaiting(c)}

\* let mounted = true; init() up to its first await, lines 99-108
StartInit(v) ==
  IF v.client = NoClient \/ ~hasProvider
    THEN [mounted |-> TRUE, pc |-> "returned", _accounts |-> <<>>]
    ELSE [mounted |-> TRUE, pc |-> "eth_accounts", _accounts |-> <<>>]

-----------------------------------------------------------------------------
Init ==
  /\ hasProvider \in BOOLEAN
  /\ pAccounts \in AccountLists
  /\ pChainId \in ChainIds
  /\ pContextAccounts \in ContextLists
  /\ listeners = {}
  /\ phase = "new"
  /\ chainId = 0
  /\ accounts = <<>>
  /\ contextAccounts = <<>>
  /\ walletConnected = FALSE
  /\ selectedAddress = Null
  /\ isSearching = FALSE
  /\ view = InitialView
  /\ dirty = FALSE
  /\ effectPending = FALSE
  /\ cleanup = FALSE
  /\ inits = {}
  /\ events = 0
  /\ hookResult = NoResult
  /\ failedNoEvent = FALSE

\* First render of <UpProvider>; its effect is scheduled.
Mount ==
  /\ phase = "new"
  /\ phase' = "mounted"
  /\ view' = RenderView
  /\ dirty' = FALSE
  /\ effectPending' = TRUE
  /\ hookResult' = NoResult
  /\ UNCHANGED <<hasProvider, pAccounts, pChainId, pContextAccounts, listeners,
                 state, selectedAddress, isSearching, cleanup, inits, events,
                 failedNoEvent>>

\* Re-render after a state change; the effect is scheduled when one of
\* [client, account, contextAccount] differs from the previous render.
Render ==
  /\ phase = "mounted"
  /\ dirty
  /\ ~effectPending
  /\ view' = RenderView
  /\ dirty' = FALSE
  /\ effectPending' = DepsChanged(view, view')
  /\ hookResult' = NoResult
  /\ UNCHANGED <<hasProvider, pAccounts, pChainId, pContextAccounts, listeners,
                 phase, state, selectedAddress, isSearching, cleanup, inits,
                 events, failedNoEvent>>

\* The effect callback, lines 98-157, after the previous run's cleanup.
EffectRun ==
  /\ phase = "mounted"
  /\ effectPending
  /\ inits' = CleanedInits \cup {StartInit(view)}
  /\ listeners' = IF hasProvider
                    THEN Register(CleanedListeners, view)
                    ELSE CleanedListeners
  /\ cleanup' = hasProvider
  /\ effectPending' = FALSE
  /\ hookResult' = NoResult
  /\ UNCHANGED <<hasProvider, pAccounts, pChainId, pContextAccounts, phase,
                 state, selectedAddress, isSearching, view, dirty, events,
                 failedNoEvent>>

\* <UpProvider> is removed from the tree: the last effect run's cleanup.
Unmount ==
  /\ phase = "mounted"
  /\ ~effectPending
  /\ phase' = "unmounted"
  /\ inits' = CleanedInits
  /\ listeners' = CleanedListeners
  /\ cleanup' = FALSE
  /\ hookResult' = NoResult
  /\ UNCHANGED <<hasProvider, pAccounts, pChainId, pContextAccounts, state,
                 selectedAddress, isSearching, view, dirty, effectPending,
                 events, failedNoEvent>>

-----------------------------------------------------------------------------
(* Provider events and the handlers of lines 130-142 *)

\* The handler the provider calls last for an event: handlers run in
\* registration order and each overwrites what the previous one set.
LastListener(e) ==
  CHOOSE l \in listeners :
    l.event = e /\ (l.cur \/ \A m \in listeners : m.event = e => ~m.cur)

Listening(e) == \E l \in listeners : l.event = e

\* Mutant: accountsChanged calls setContextAccounts instead of setAccounts
accountsChangedSetsContext(l, _accounts) ==
  /\ contextAccounts' = _accounts
  /\ walletConnected' = (First(_accounts) # Undefined /\ l.contextAccount # Undefined)
  /\ UNCHANGED <<chainId, accounts>>

\* accountsChanged, lines 130-133
accountsChanged(l, _accounts) ==
  /\ accounts' = _accounts
  /\ walletConnected' = (First(_accounts) # Undefined /\ l.contextAccount # Undefined)
  /\ UNCHANGED <<chainId, contextAccounts>>

\* contextAccountsChanged, lines 135-138
contextAccountsChanged(l, _accounts) ==
  /\ contextAccounts' = _accounts
  /\ walletConnected' = (l.account # Undefined /\ First(_accounts) # Undefined)
  /\ UNCHANGED <<chainId, accounts>>

\* chainChanged, lines 140-142
chainChanged(l, _chainId) ==
  /\ chainId' = _chainId
  /\ UNCHANGED <<accounts, contextAccounts, walletConnected>>

\* Mutant: accountsChanged also drops a selected address that is no longer
\* among the accounts
EmitAccountsChangedClearsSelection(a) ==
  /\ hasProvider
  /\ events < MaxEvents
  /\ events' = events + 1
  /\ pAccounts' = a
  /\ IF Listening("accountsChanged")
       THEN /\ accountsChanged(LastListener("accountsChanged"), a)
            /\ dirty' = TRUE
            /\ selectedAddress' =
                 IF \E i \in 1..Len(a) : a[i] = selectedAddress
                   THEN selectedAddress ELSE Null
       ELSE UNCHANGED <<state, dirty, selectedAddress>>
  /\ hookResult' = NoResult
  /\ failedNoEvent' = FALSE
  /\ UNCHANGED <<hasProvider, pChainId, pContextAccounts, listeners, phase,
                 isSearching, view, effectPending, cleanup, inits>>

\* The provider switches accounts and emits accountsChanged.
EmitAccountsChanged(a) ==
  /\ hasProvider
  /\ events < MaxEvents
  /\ events' = events + 1
  /\ pAccounts' = a
  /\ IF Listening("accountsChanged")
       THEN /\ accountsChanged(LastListener("accountsChanged"), a)
            /\ dirty' = TRUE
       ELSE UNCHANGED <<state, dirty>>
  /\ hookResult' = NoResult
  /\ failedNoEvent' = FALSE
  /\ UNCHANGED <<hasProvider, pChainId, pContextAccounts, listeners, phase,
                 selectedAddress, isSearching, view, effectPending, cleanup, inits>>

\* The provider's context accounts change and it emits contextAccountsChanged.
EmitContextAccountsChanged(a) ==
  /\ hasProvider
  /\ events < MaxEvents
  /\ events' = events + 1
  /\ pContextAccounts' = a
  /\ IF Listening("contextAccountsChanged")
       THEN /\ contextAccountsChanged(LastListener("contextAccountsChanged"), a)
            /\ dirty' = TRUE
       ELSE UNCHANGED <<state, dirty>>
  /\ hookResult' = NoResult
  /\ failedNoEvent' = FALSE
  /\ UNCHANGED <<hasProvider, pAccounts, pChainId, listeners, phase,
                 selectedAddress, isSearching, view, effectPending, cleanup, inits>>

\* The provider switches chain and emits chainChanged.
EmitChainChanged(n) ==
  /\ hasProvider
  /\ events < MaxEvents
  /\ events' = events + 1
  /\ pChainId' = n
  /\ IF Listening("chainChanged")
       THEN /\ chainChanged(LastListener("chainChanged"), n)
            /\ dirty' = (dirty \/ n # chainId)
       ELSE UNCHANGED <<state, dirty>>
  /\ hookResult' = NoResult
  /\ failedNoEvent' = FALSE
  /\ UNCHANGED <<hasProvider, pAccounts, pContextAccounts, listeners, phase,
                 selectedAddress, isSearching, view, effectPending, cleanup, inits>>

-----------------------------------------------------------------------------
(* provider.request and the rest of init, lines 105-124 *)

\* What is left of a coroutine that has ended: the current run's is kept
\* until its cleanup, a cleaned-up run's is dropped.
Ended(c, pc) == IF c.mounted THEN {[c EXCEPT !.pc = pc]} ELSE {}

\* Mutant: the catch block resets the connection state
InitCatchResets(c) ==
  /\ inits' = (inits \ {c}) \cup Ended(c, "failed_" \o c.pc)
  /\ failedNoEvent' = TRUE
  /\ accounts' = <<>>
  /\ walletConnected' = FALSE
  /\ dirty' = TRUE
  /\ UNCHANGED <<chainId, contextAccounts>>

\* Mutant: the catch block asks again
InitCatchRetries(c) ==
  /\ inits' = inits
  /\ failedNoEvent' = TRUE
  /\ UNCHANGED <<state, dirty>>

\* catch (error) { console.error(error) }, lines 122-124
InitCatch(c) ==
  /\ inits' = (inits \ {c}) \cup Ended(c, "failed_" \o c.pc)
  /\ failedNoEvent' = TRUE
  /\ UNCHANGED <<state, dirty>>

\* Mutant: the mounted check after eth_chainId (line 115) is missing
InitReturnSkipsSecondCheck(c) ==
  IF c.pc = "eth_chainId"
    THEN /\ chainId' = Number(HexChainId(pChainId))
         /\ contextAccounts' = pContextAccounts
         /\ walletConnected' = (First(c._accounts) # Undefined /\
                                First(pContextAccounts) # Undefined)
         /\ dirty' = TRUE
         /\ inits' = inits \ {c}
         /\ UNCHANGED <<accounts, failedNoEvent>>
    ELSE /\ inits' = inits \ {c}
         /\ UNCHANGED <<state, dirty, failedNoEvent>>

\* Mutant: no mounted check, a cleaned-up init still writes
InitReturnWrites(c) ==
  /\ inits' = inits \ {c}
  /\ accounts' = pAccounts
  /\ dirty' = TRUE
  /\ UNCHANGED <<chainId, contextAccounts, walletConnected, failedNoEvent>>

\* if (!mounted) return, lines 109 and 115
InitReturn(c) ==
  /\ inits' = inits \ {c}
  /\ UNCHANGED <<state, dirty, failedNoEvent>>

\* lines 105-113: eth_accounts answered, setAccounts(_accounts), then
\* eth_chainId is requested
InitAfterAccounts(c) ==
  /\ accounts' = pAccounts
  /\ dirty' = TRUE
  /\ inits' = (inits \ {c}) \cup {[c EXCEPT !.pc = "eth_chainId", !._accounts = pAccounts]}
  /\ UNCHANGED <<chainId, contextAccounts, walletConnected, failedNoEvent>>

\* lines 112-121: eth_chainId answered, setChainId, then
\* provider.contextAccounts is read in the same turn (mounted cannot change
\* before line 119), setContextAccounts, setWalletConnected
InitAfterChainId(c) ==
  /\ chainId' = Number(HexChainId(pChainId))
  /\ contextAccounts' = pContextAccounts
  /\ walletConnected' = (First(c._accounts) # Undefined /\
                         First(pContextAccounts) # Undefined)
  /\ dirty' = TRUE
  /\ inits' = (inits \ {c}) \cup Ended(c, "done")
  /\ UNCHANGED <<accounts, failedNoEvent>>

\* The provider settles the request a coroutine waits for, with its current
\* value (ok) or with an error, and init() continues after the await.  The
\* answer and the events travel on one ordered channel, so the answer is
\* the provider's value at the time init continues.
InitResume(c, ok) ==
  /\ c \in inits
  /\ Awaiting(c)
  /\ IF ~ok THEN InitCatch(c)
     ELSE IF ~c.mounted THEN InitReturn(c)
     ELSE IF c.pc = "eth_accounts" THEN InitAfterAccounts(c)
     ELSE InitAfterChainId(c)
  /\ hookResult' = NoResult
  /\ UNCHANGED <<hasProvider, pAccounts, pChainId, pContextAccounts, listeners,
                 phase, selectedAddress, isSearching, view, effectPending,
                 cleanup, events>>

-----------------------------------------------------------------------------
(* Descendants: the exposed setters and useUpProvider, lines 52-58 *)

SetSelectedAddress(a) ==
  /\ phase = "mounted"
  /\ selectedAddress' = a
  /\ dirty' = (dirty \/ a # selectedAddress)
  /\ hookResult' = NoResult
  /\ UNCHANGED <<hasProvider, pAccounts, pChainId, pContextAccounts, listeners,
                 phase, state, isSearching, view, effectPending, cleanup, inits,
                 events, failedNoEvent>>

SetIsSearching(b) ==
  /\ phase = "mounted"
  /\ isSearching' = b
  /\ dirty' = (dirty \/ b # isSearching)
  /\ hookResult' = NoResult
  /\ UNCHANGED <<hasProvider, pAccounts, pChainId, pContextAccounts, listeners,
                 phase, state, selectedAddress, view, effectPending, cleanup,
                 inits, events, failedNoEvent>>

\* createContext(undefined), line 47, and <UpContext.Provider value={data}>,
\* line 191: what useContext(UpContext) gives a caller
useContext(under) ==
  IF under /\ phase = "mounted"
    THEN [defined |-> TRUE, value |-> view]
    ELSE [defined |-> FALSE, value |-> InitialView]

\* Mutant: no check of the context
useUpProviderUnchecked(context) ==
  [outcome |-> "returned", value |-> context.value]

\* useUpProvider, lines 52-58
useUpProvider(context) ==
  IF ~context.defined
    THEN [outcome |-> "threw", value |-> InitialView]
    ELSE [outcome |-> "returned", value |-> context.value]

\* What a caller gets, with where it called from
CallResult(under) ==
  LET r == useUpProvider(useContext(under))
  IN [outcome |-> r.outcome, under |-> under, value |-> r.value]

\* A component calls useUpProvider(), under an UpProvider or not.
CallUseUpProvider(under) ==
  /\ hookResult' = CallResult(under)
  /\ UNCHANGED <<hasProvider, pAccounts, pChainId, pContextAccounts, listeners,
                 phase, state, selectedAddress, isSearching, view, dirty,
                 effectPending, cleanup, inits, events, failedNoEvent>>

-----------------------------------------------------------------------------
(* Specifications *)

\* The component and its provider
Next ==
  \/ Mount
  \/ Render
  \/ EffectRun
  \/ Unmount
  \/ \E a \in AccountLists : EmitAccountsChanged(a)
  \/ \E a \in ContextLists : EmitContextAccountsChanged(a)
  \/ \E n \in ChainIds : EmitChainChanged(n)
  \/ \E c \in inits, ok \in BOOLEAN : InitResume(c, ok)

Spec == Init /\ [][Next]_vars

\* ... where React runs every pending render and effect and the provider
\* settles every request
FairSpec ==
  /\ Spec
  /\ WF_vars(Render)
  /\ WF_vars(EffectRun)
  /\ WF_vars(\E c \in inits, ok \in BOOLEAN : InitResume(c, ok))

\* ... with components that call useUpProvider
HookNext ==
  \/ Next
  \/ \E under \in BOOLEAN : CallUseUpProvider(under)

HookSpec == Init /\ [][HookNext]_vars

\* ... with descendants that call the exposed setters
SetterNext ==
  \/ Next
  \/ \E a \in SelectableAddresses : SetSelectedAddress(a)
  \/ \E b \in BOOLEAN : SetIsSearching(b)

\* The provider's first state is fixed here; its events still take it
\* through every account list, context list and chain.
SetterInit ==
  /\ Init
  /\ pAccounts = <<"0xA">>
  /\ pChainId = LuksoMainnetId
  /\ pContextAccounts = <<"0xC">>

SetterSpec == SetterInit /\ [][SetterNext]_vars

-----------------------------------------------------------------------------
(* Properties *)

\* Nothing of the component is pending: no render, no effect run, no request
Idle == ~dirty /\ ~effectPending /\ \A c \in inits : ~Awaiting(c)

BothPresent == First(accounts) # Undefined /\ First(contextAccounts) # Undefined

\* A step that calls one of the three registered handlers
HandlerStep ==
  \/ \E a \in AccountLists : Listening("accountsChanged") /\ EmitAccountsChanged(a)
  \/ \E a \in ContextLists :
       Listening("contextAccountsChanged") /\ EmitContextAccountsChanged(a)
  \/ \E n \in ChainIds : Listening("chainChanged") /\ EmitChainChanged(n)

\* A step in which init() of the current effect run continues after an answer
InitStep == \E c \in inits : c.mounted /\ InitResume(c, TRUE)

\* A step in which init() catches a failed request
FailStep(c) == c \in inits /\ InitResume(c, FALSE)

\* A step in which eth_accounts or eth_chainId is requested
IssuesRequest ==
  \/ EffectRun /\ StartInit(view).pc = "eth_accounts"
  \/ \E c \in inits : c.mounted /\ c.pc = "eth_accounts" /\ InitResume(c, TRUE)

\* C1: while mounted, walletConnected is true exactly when accounts and
\* contextAccounts both have a first address (every state of the model is
\* one between handler and init steps).
C1_WalletConnectedReflectsArrays ==
  phase = "mounted" => (walletConnected <=> BothPresent)

\* C2: on mount with the provider present and no event delivered, the
\* component has asked for eth_accounts and eth_chainId and, once nothing is
\* pending, holds the provider's accounts and chain id.
C2_MountQueriesProvider ==
  (phase = "mounted" /\ hasProvider /\ events = 0 /\ Idle /\ ~failedNoEvent)
    => (accounts = pAccounts /\ chainId = pChainId)

\* C3: at most one handler per event name is registered, every registered
\* handler is one of the effect run whose cleanup is still to come (so each
\* cleanup removed exactly the three handlers of its own run), and after
\* unmount none is registered.
C3_ListenerCleanup ==
  /\ \A e \in EventNames : Cardinality({l \in listeners : l.event = e}) <= 1
  /\ \A l \in listeners : l.cur /\ cleanup
  /\ cleanup => \A e \in EventNames : \E l \in listeners : l.event = e
  /\ phase = "unmounted" => listeners = {}

\* C3 witness: unmounted after at least one effect re-run (the first
\* account had changed), with every handler removed.
C3_Witness ==
  /\ phase = "unmounted" /\ hasProvider
  /\ view.account # Undefined
  /\ listeners = {}

\* C4: once nothing is pending, the mounted component mirrors the provider:
\* accounts, contextAccounts and chainId equal the provider's.
C4_MirrorsProvider ==
  (phase = "mounted" /\ hasProvider /\ Idle)
    => /\ accounts = pAccounts
       /\ contextAccounts = pContextAccounts
       /\ chainId = pChainId

\* C5: a delivered accountsChanged(a) makes accounts exactly a and leaves
\* contextAccounts and chainId; contextAccountsChanged(c) makes
\* contextAccounts exactly c and leaves accounts and chainId; chainChanged(n)
\* makes chainId n and leaves accounts, contextAccounts and walletConnected.
C5_HandlerFrames ==
  [][/\ \A a \in AccountLists :
          (Listening("accountsChanged") /\ EmitAccountsChanged(a))
            => (accounts' = a /\ UNCHANGED <<contextAccounts, chainId>>)
     /\ \A a \in ContextLists :
          (Listening("contextAccountsChanged") /\ EmitContextAccountsChanged(a))
            => (contextAccounts' = a /\ UNCHANGED <<accounts, chainId>>)
     /\ \A n \in ChainIds :
          (Listening("chainChanged") /\ EmitChainChanged(n))
            => (chainId' = n /\ UNCHANGED <<accounts, contextAccounts, walletConnected>>)
    ]_vars

\* C5 witness: accounts were delivered by accountsChanged (init cannot have
\* run: chainId is still 0) and the other fields are as they were.
C5_Witness ==
  /\ phase = "mounted" /\ events > 0
  /\ accounts = <<"0xA", "0xB">> /\ pAccounts = accounts
  /\ contextAccounts = <<>> /\ chainId = 0

\* C6: an error of eth_accounts or eth_chainId is caught in init: the step
\* changes none of chainId, accounts, contextAccounts, walletConnected (the
\* fields not yet written keep their values), exposes nothing new, leaves
\* the component mounted, and the three handlers of that effect run stay
\* registered.
C6_InitErrorCaught ==
  [][\A c \in inits :
       FailStep(c) =>
         /\ UNCHANGED <<state, view, phase, listeners, dirty, effectPending>>
         /\ c.mounted =>
              \A e \in EventNames : \E l \in listeners' : l.event = e /\ l.cur
    ]_vars

\* C6 witness: eth_chainId failed after setAccounts: accounts holds the
\* answer, contextAccounts and walletConnected were not written, the
\* handlers are registered.
C6_Witness ==
  \E c \in inits :
    /\ c.mounted /\ c.pc = "failed_eth_chainId"
    /\ c._accounts # <<>> /\ accounts = c._accounts
    /\ contextAccounts = <<>> /\ pContextAccounts # <<>> /\ ~walletConnected
    /\ \A e \in EventNames : \E l \in listeners : l.event = e /\ l.cur

\* C7 (as claimed): once an init run has failed and no provider event is
\* delivered afterwards, no eth_accounts or eth_chainId request is issued.
C7_NoRequestAfterFailure ==
  [][(failedNoEvent /\ failedNoEvent') => ~IssuesRequest]_vars

\* C7 (amended): a failed init run issues no further request and its
\* failure starts nothing: the failing step schedules no render and no
\* effect run and leaves no request of that run in flight, a run that has
\* ended never waits for an answer again, and once an init run has failed
\* and nothing is pending, no request is issued and nothing becomes
\* pending until a provider event is delivered.
C7_FailedInitIssuesNothing ==
  [][/\ \A c \in inits :
          FailStep(c) =>
            /\ UNCHANGED <<dirty, effectPending, cleanup, view>>
            /\ {d \in inits' : Awaiting(d)} = {d \in inits : Awaiting(d)} \ {c}
     /\ \A c \in inits :
          (c.mounted /\ ~Awaiting(c)) =>
            \/ c \in inits'
            \/ \A d \in inits' : d.mounted => d # c /\ effectPending # effectPending'
            \/ phase' = "unmounted"
     /\ (failedNoEvent /\ failedNoEvent' /\ Idle) => (~IssuesRequest /\ Idle')
    ]_vars

\* C7 witness: the current run's init has failed, no event came since, and
\* nothing is pending.
C7_Witness ==
  /\ phase = "mounted" /\ failedNoEvent /\ Idle
  /\ \E c \in inits : c.mounted /\ Failed(c)

\* C9 (as claimed): chainId, accounts, contextAccounts and walletConnected
\* change only in steps of the three event handlers.
C9_OnlyHandlersMutate ==
  [][state' # state => HandlerStep]_vars

\* C9 (amended): chainId, accounts, contextAccounts and walletConnected
\* change only in steps of the three event handlers and of the init of the
\* effect run that is still mounted; render, effect run, cleanup and
\* unmount never change them.
C9_OnlyHandlersAndInitMutate ==
  [][state' # state => (HandlerStep \/ InitStep)]_vars

\* C9 witness: init has written the state (no event set this chain id).
C9_Witness ==
  /\ phase = "mounted" /\ events = 1
  /\ \E c \in inits : c.mounted /\ c.pc = "done"
  /\ accounts = pAccounts /\ accounts # <<>>
  /\ contextAccounts = pContextAccounts /\ contextAccounts # <<>>
  /\ walletConnected

\* C10: useUpProvider returns the context value (the last render's) when
\* called under a mounted UpProvider and throws when there is none above
\* the caller; it never returns an undefined context.
C10_UseUpProvider ==
  /\ hookResult.outcome \in {"none", "returned", "threw"}
  /\ hookResult.outcome = "returned"
       => hookResult.under /\ phase = "mounted" /\ hookResult.value = view
  /\ hookResult.outcome = "threw" => ~(hookResult.under /\ phase = "mounted")

\* C10 witness: a call under the mounted provider returned a context value
\* that already shows delivered accounts.
C10_Witness ==
  /\ hookResult.outcome = "returned"
  /\ hookResult.value.accounts # <<>>
  /\ hookResult.value.walletConnected


\* C11: once the cleanup of an effect run has been called, the init of that
\* run writes none of accounts, chainId, contextAccounts, walletConnected
\* when it resumes, on whichever await it was suspended and whether the
\* request succeeded or failed.
C11_CleanedUpInitWritesNothing ==
  [][\A c \in inits : \A ok \in BOOLEAN :
       (~c.mounted /\ InitResume(c, ok)) => UNCHANGED state
    ]_vars

\* C11 witness: two cleaned-up init runs are suspended, one on eth_accounts
\* and one on eth_chainId, while the state differs from what they would
\* write.
C11_Witness ==
  /\ \E c \in inits : ~c.mounted /\ c.pc = "eth_accounts"
  /\ \E c \in inits : ~c.mounted /\ c.pc = "eth_chainId"
  /\ accounts # pAccounts

\* C12: whenever a registered accountsChanged or contextAccountsChanged
\* handler is called, the account and contextAccount its closure captured
\* are the first elements of the current accounts and contextAccounts.
C12_HandlersSeeCurrentFirsts ==
  [][/\ (\E a \in AccountLists :
           Listening("accountsChanged") /\ EmitAccountsChanged(a))
          => /\ LastListener("accountsChanged").account = First(accounts)
             /\ LastListener("accountsChanged").contextAccount = First(contextAccounts)
     /\ (\E a \in ContextLists :
           Listening("contextAccountsChanged") /\ EmitContextAccountsChanged(a))
          => /\ LastListener("contextAccountsChanged").account = First(accounts)
             /\ LastListener("contextAccountsChanged").contextAccount =
                  First(contextAccounts)
    ]_vars

\* C14: in every rendered state client and readClient are both non-null
\* exactly when the provider exists and chainId is non-zero, and then both
\* are bound to lukso exactly when chainId is 42 and to luksoTestnet for
\* every other chainId.
C14_ClientsFollowChainId ==
  phase # "new" =>
    /\ (view.client # NoClient) <=> (hasProvider /\ view.chainId # 0)
    /\ (view.readClient # NoClient) <=> (hasProvider /\ view.chainId # 0)
    /\ view.client # NoClient =>
         /\ view.client.chain = "lukso" <=> view.chainId = 42
         /\ view.readClient.chain = "lukso" <=> view.chainId = 42
         /\ view.client.chain = "luksoTestnet" <=> view.chainId # 42
         /\ view.readClient.chain = "luksoTestnet" <=> view.chainId # 42

\* C14 witness: rendered with a chain id other than 0 and 42, both clients
\* on luksoTestnet.
C14_Witness ==
  /\ phase = "mounted" /\ view.chainId \notin {0, 42}
  /\ view.client.chain = "luksoTestnet" /\ view.readClient.chain = "luksoTestnet"


\* No render, effect run or request is pending
Quiescent ==
  /\ phase = "mounted" => ~dirty /\ ~effectPending
  /\ \A c \in inits : ~Awaiting(c)

\* C13: once the provider emits no further event, the effect/init cycle
\* ends: the component reaches a state with no render, effect run or
\* request pending and stays there, so effect re-runs and init executions
\* are finitely many.
C13_CycleTerminates == <>[]Quiescent

\* C13 witness: every event has been emitted, init has run to its end and
\* written the state, and nothing is pending.
C13_Witness ==
  /\ phase = "mounted" /\ events = MaxEvents /\ Quiescent
  /\ \E c \in inits : c.mounted /\ c.pc = "done"
  /\ chainId # 0 /\ accounts # <<>> /\ contextAccounts # <<>>


\* C15: selectedAddress changes only in a step of setSelectedAddress and
\* isSearching only in a step of setIsSearching: no provider event, init
\* step, render, effect run or cleanup changes them.
C15_OnlySettersChangeSelection ==
  [][/\ selectedAddress' # selectedAddress
          => \E a \in SelectableAddresses : SetSelectedAddress(a)
     /\ isSearching' # isSearching => \E b \in BOOLEAN : SetIsSearching(b)
    ]_vars

\* C15 witness: an address was selected and accountsChanged then delivered
\* a list without it; the selection is still there, rendered too.
C15_Witness ==
  /\ phase = "mounted" /\ events > 0
  /\ selectedAddress = "0xA" /\ view.selectedAddress = "0xA"
  /\ isSearching
  /\ accounts = <<"0xB">> /\ view.accounts = <<"0xB">>

=============================================================================
